---------------------------- MODULE Spec2Model ----------------------------
(***************************************************************************)
(* Model of datumaro/components/operations.py: mean_std with               *)
(* StatsCounter.pairwise_stats / StatsCounter.compute_stats, and           *)
(* compute_ann_statistics.                                                 *)
(*                                                                         *)
(* Numbers.  The code computes in IEEE doubles.  The model computes in     *)
(* exact fractions <<n, d>> with d >= 0, extended the way IEEE extends the *)
(* reals: <<1, 0>> is +inf, <<-1, 0>> is -inf and <<0, 0>> is NaN, so that *)
(* 1/0 = inf and 0 * inf = NaN as in numpy.  Rounding is not modelled.     *)
(* A number that may be a square root is kept symbolically as a record     *)
(* [coef, rad, root]: coef times the square root of rad when root holds,   *)
(* and coef times rad otherwise.                                           *)
(*                                                                         *)
(* Channels.  Every per-channel quantity of the code is one vectorised     *)
(* expression applied alike to each channel; the model carries the value   *)
(* of channel 0, which every image has.                                    *)
(***************************************************************************)
EXTENDS Integers, Sequences, FiniteSets, TLC

(***************************************************************************)
(* Bounds of the model and constants of the program.                       *)
(***************************************************************************)
\* Longest dataset drawn from the whole catalogue of items.
MaxMixed == 3

\* Longest dataset drawn from the short catalogue (LongImages).
MaxItems == 5

\* Largest pixel intensity; images are divided by it and results multiplied.
PixelMax == 255

VARIABLES
    op,        \* the entry point called: "mean_std" or "compute_ann_statistics"
    layout,    \* what item.image.size holds: "HW" or "HWC"
    dataset,   \* the dataset: a sequence of items
    pc,        \* position in the entry point
    i,         \* loop index of the for loop over the dataset (1-based)
    stats,     \* mean_std: stats[k] = [mean, var] of item k, for the items
               \* written so far (the rest of the array is uninitialised);
               \* compute_ann_statistics: the stats dictionary
    counts,    \* mean_std: counts[k], for the items written so far
    stack,     \* frames of the compute_stats calls in progress
    retval,    \* value returned by the last finished compute_stats call
    result,    \* value returned by the entry point
    calls,     \* how many times each operation has been invoked
    leaves     \* index ranges handled by the base cases, in call order

vars == <<op, layout, dataset, pc, i, stats, counts, stack, retval, result,
          calls, leaves>>

(***************************************************************************)
(* Extended exact arithmetic.                                              *)
(***************************************************************************)
Abs(x) == IF x < 0 THEN -x ELSE x

Sign(x) == IF x < 0 THEN -1 ELSE IF x > 0 THEN 1 ELSE 0

\* Arithmetic is written as functions of values, so that an operand is
\* evaluated once however often the body reads it.
GCD[a \in Nat, b \in Nat] == IF b = 0 THEN a ELSE GCD[b, a % b]

\* The fraction n/d in lowest terms; d = 0 gives an infinity or NaN.
Frac[n \in Int, d \in Int] ==
    IF d = 0 THEN <<Sign(n), 0>>
    ELSE LET s == IF d < 0 THEN -1 ELSE 1
             g == GCD[Abs(n), Abs(d)]
         IN  <<(s * n) \div g, (s * d) \div g>>

Value == Int \X Int

Zero == <<0, 1>>
NaN == <<0, 0>>
Inf == <<1, 0>>
Num(k) == <<k, 1>>

IsNaN(x) == x = NaN
IsFinite(x) == x[2] # 0

Neg[x \in Value] == <<-x[1], x[2]>>

Add[x \in Value, y \in Value] ==
    IF IsNaN(x) \/ IsNaN(y) THEN NaN
    ELSE IF ~IsFinite(x) /\ ~IsFinite(y)
         THEN (IF x[1] = y[1] THEN x ELSE NaN)
    ELSE IF ~IsFinite(x) THEN x
    ELSE IF ~IsFinite(y) THEN y
    ELSE LET g == GCD[x[2], y[2]]
         IN  Frac[x[1] * (y[2] \div g) + y[1] * (x[2] \div g),
                  (x[2] \div g) * y[2]]

Sub[x \in Value, y \in Value] == Add[x, Neg[y]]

\* Factors common to a numerator and the other denominator are cancelled
\* before multiplying; with a zero denominator nothing is cancelled.
Mul[x \in Value, y \in Value] ==
    LET g == IF x[2] = 0 \/ y[2] = 0 THEN 1 ELSE GCD[Abs(x[1]), y[2]]
        k == IF x[2] = 0 \/ y[2] = 0 THEN 1 ELSE GCD[Abs(y[1]), x[2]]
    IN  Frac[(x[1] \div g) * (y[1] \div k), (x[2] \div k) * (y[2] \div g)]

Recip[x \in Value] == IF x[1] < 0 THEN <<-x[2], -x[1]>> ELSE <<x[2], x[1]>>

Div[x \in Value, y \in Value] == Mul[x, Recip[y]]

Less[x \in Value, y \in Value] == x[1] * y[2] < y[1] * x[2]

\* np.sqrt
Sqrt(x) == [coef |-> 1, rad |-> x, root |-> TRUE]
\* a number that is no square root
Plain(x) == [coef |-> 1, rad |-> x, root |-> FALSE]
\* a symbolic number times the integer c
Scale(s, c) == [s EXCEPT !.coef = @ * c]
\* np.square
Square(s) ==
    IF s.root THEN Mul[Num(s.coef * s.coef), s.rad]
    ELSE Mul[Mul[Num(s.coef), s.rad], Mul[Num(s.coef), s.rad]]
\* the value of a symbolic number that is no square root
ValueOf(s) == Mul[Num(s.coef), s.rad]

\* No value (Python's unbound name or None).
None == [none |-> TRUE]

RECURSIVE SumSeq(_)
SumSeq(s) == IF s = <<>> THEN Zero ELSE Add[Head(s), SumSeq(Tail(s))]

(***************************************************************************)
(* Images.  An image is [h, w, ch, fill]: an h x w pixel buffer with ch    *)
(* channels (ch = 0: a two-dimensional buffer with no channel axis).       *)
(* fill "lo" is all 0, "hi" all PixelMax, "mix" one PixelMax pixel         *)
(* followed by zeros.                                                      *)
(***************************************************************************)
Img(h, w, ch, fill) == [h |-> h, w |-> w, ch |-> ch, fill |-> fill]

Images ==
    { Img(1, 1, 3, "lo"), Img(1, 1, 3, "hi"), Img(1, 2, 3, "mix"),
      Img(2, 2, 3, "lo"), Img(2, 2, 3, "hi"), Img(1, 2, 4, "hi"),
      Img(2, 2, 0, "mix") }

\* The images of the long datasets.
LongImages == { Img(1, 2, 3, "mix"), Img(2, 2, 3, "hi") }

\* Pixel k (1-based, row-major) of channel 0 of the image.
Pixel(img, k) ==
    CASE img.fill = "lo" -> 0
      [] img.fill = "hi" -> PixelMax
      [] OTHER -> IF k = 1 THEN PixelMax ELSE 0

\* image.data.shape
Shape(img) == IF img.ch = 0 THEN <<img.h, img.w>> ELSE <<img.h, img.w, img.ch>>

\* item.image.size: the image's size descriptor, (height, width) or
\* (height, width, channels) when the buffer has a channel axis.
Size(img, lay) ==
    IF lay = "HWC" THEN Shape(img) ELSE <<img.h, img.w>>

RECURSIVE Prod(_)
Prod(s) == IF s = <<>> THEN 1 ELSE Head(s) * Prod(Tail(s))

\* image.astype(np.double) / 255, channel 0, as a sequence of samples.
Normalised(img) ==
    [k \in 1..(img.h * img.w) |-> Frac[Pixel(img, k), PixelMax]]

Mean(samples) == Div[SumSeq(samples), Num(Len(samples))]

\* Sum of squared deviations from the mean.
SqDev(samples) ==
    LET mu == Mean(samples)
    IN  SumSeq([k \in 1..Len(samples) |->
                   Mul[Sub[samples[k], mu], Sub[samples[k], mu]]])

\* cv2.meanStdDev: the mean and the population standard deviation.
meanStdDev(samples) ==
    [mean |-> Mean(samples),
     var  |-> Sqrt(Div[SqDev(samples), Num(Len(samples))])]

(***************************************************************************)
(* StatsCounter.                                                           *)
(***************************************************************************)
\* The mean of the merged triple.
merged_mean(mean_a, mean_b) ==
    Add[Mul[mean_a, Frac[1, 2]], Mul[mean_b, Frac[1, 2]]]

pairwise_stats(count_a, mean_a, var_a, count_b, mean_b, var_b) ==
    LET delta == Sub[mean_b, mean_a]
        m_a == Mul[var_a, Num(count_a - 1)]
        m_b == Mul[var_b, Num(count_b - 1)]
        M2 == Add[Add[m_a, m_b],
                  Div[Mul[Mul[Mul[delta, delta], Num(count_a)], Num(count_b)],
                      Num(count_a + count_b)]]
    IN  [count |-> count_a + count_b,
         mean  |-> merged_mean(mean_a, mean_b),
         var   |-> Div[M2, Num(count_a + count_b - 1)]]

\* Faulty variant of the split: one element to the left, the rest to the
\* right, which makes the reduction a chain.
SplitPoint_Unbalanced(n) == 1

\* Faulty variant of the split: one short of the midpoint, which hands an
\* empty slice to the first recursive call on three elements.
SplitPoint_OffByOne(n) == n \div 2 - 1

\* h = n // 2
SplitPoint(n) == n \div 2

\* A frame of compute_stats on the slice stats[lo..hi], counts[lo..hi].
\* at: "enter" | "left" (the first recursive call is running) |
\*     "right" (the second one is; left holds the first one's result).
Frame(lo, hi) == [lo |-> lo, hi |-> hi, at |-> "enter", left |-> None]

Top == stack[Len(stack)]
Pop == SubSeq(stack, 1, Len(stack) - 1)
FrameLen(f) == f.hi - f.lo + 1

\* A returned triple, with the index range it stands for and the nesting
\* depth of the merges that built it.
Triple(t, lo, hi, depth) ==
    [count |-> t.count, mean |-> t.mean, var |-> t.var,
     lo |-> lo, hi |-> hi, depth |-> depth]

\* counts[k], mean_accessor(k, stats), variance_accessor(k, stats)
Elem(k) ==
    [count |-> counts[k], mean |-> stats[k].mean, var |-> ValueOf(stats[k].var)]

Max(a, b) == IF a > b THEN a ELSE b

(***************************************************************************)
(* Initial states: one call of an entry point on one dataset.              *)
(***************************************************************************)
SeqsUpTo(S, n) == UNION { [1..k -> S] : k \in 0..n }

ImageItems == { [image |-> img] : img \in Images }
LongItems == { [image |-> img] : img \in LongImages }

ImageDatasets ==
    SeqsUpTo(ImageItems, MaxMixed) \cup SeqsUpTo(LongItems, MaxItems)

\* An annotation: its type's name and its attributes, a dictionary kept as
\* the sequence of its (name, value) pairs in iteration order.
Ann(type, attributes) == [type |-> type, attributes |-> attributes]

\* The annotation lists an item may carry.
AnnLists ==
    { <<>>,
      <<Ann("bbox", <<>>)>>,
      <<Ann("bbox", <<>>), Ann("bbox", <<>>)>>,
      <<Ann("label", <<>>), Ann("bbox", <<<<"occluded", TRUE>>>>)>>,
      <<Ann("polygon", <<<<"occluded", FALSE>>, <<"score", 1>>>>)>> }

\* Datasets of annotated items; item k has the identifier k.
AnnDatasets ==
    { [k \in DOMAIN anns |-> [id |-> k, annotations |-> anns[k]]] :
        anns \in SeqsUpTo(AnnLists, MaxMixed) }

NoCalls == [extract |-> 0, bessel |-> 0, compute_stats |-> 0, pairwise_stats |-> 0]

Init ==
    /\ \/ /\ op = "mean_std"
          /\ layout \in {"HW", "HWC"}
          /\ dataset \in ImageDatasets
          /\ stats = <<>>
       \/ /\ op = "compute_ann_statistics"
          /\ layout = "HW"
          /\ dataset \in AnnDatasets
          /\ stats = None
    /\ pc = "start"
    /\ i = 0
    /\ counts = <<>>
    /\ stack = <<>>
    /\ retval = None
    /\ result = None
    /\ calls = NoCalls
    /\ leaves = <<>>

(***************************************************************************)
(* mean_std                                                                *)
(***************************************************************************)
\* Faulty variant of the empty-dataset branch: the early return is missing
\* and the function goes on with its empty arrays.
MeanStdEmpty_Fallthrough ==
    /\ op = "mean_std" /\ pc = "start"
    /\ Len(dataset) = 0
    /\ stats' = <<>>
    /\ counts' = <<>>
    /\ i' = 1
    /\ pc' = "bessel"
    /\ UNCHANGED <<op, layout, dataset, stack, retval, result, calls, leaves>>

\* if len(dataset) == 0: return [0, 0, 0], [0, 0, 0]
MeanStdEmpty ==
    /\ op = "mean_std" /\ pc = "start"
    /\ Len(dataset) = 0
    /\ result' = [mean |-> Zero, std |-> Plain(Zero)]
    /\ pc' = "done"
    /\ UNCHANGED <<op, layout, dataset, i, stats, counts, stack, retval,
                   calls, leaves>>

\* stats = np.empty(...); counts = np.empty(...): allocated, nothing written.
MeanStdAlloc ==
    /\ op = "mean_std" /\ pc = "start"
    /\ Len(dataset) # 0
    /\ stats' = <<>>
    /\ counts' = <<>>
    /\ i' = 1
    /\ pc' = "loop"
    /\ UNCHANGED <<op, layout, dataset, stack, retval, result, calls, leaves>>

\* One iteration of  for i, item in enumerate(dataset).
\* A two-dimensional buffer gets a channel axis and any other is cut to its
\* first three channels: channel 0 is kept either way.
\* counts is a uint32 array; the products met here are far below 2^32, so
\* the stored count is the product itself.
ExtractItem ==
    /\ op = "mean_std" /\ pc = "loop"
    /\ i <= Len(dataset)
    /\ LET image == dataset[i].image
       IN  /\ counts' = Append(counts, Prod(Size(image, layout)))
           /\ stats' = Append(stats, meanStdDev(Normalised(image)))
    /\ calls' = [calls EXCEPT !.extract = @ + 1]
    /\ i' = i + 1
    /\ pc' = IF i = Len(dataset) THEN "bessel" ELSE "loop"
    /\ UNCHANGED <<op, layout, dataset, stack, retval, result, leaves>>

\* counts / (counts - 1)
BesselFactor(count) == Div[Num(count), Num(count - 1)]

\* make variance unbiased
Bessel ==
    /\ op = "mean_std" /\ pc = "bessel"
    /\ stats' = [k \in 1..Len(stats) |->
                    [mean |-> stats[k].mean,
                     var  |-> Plain(Mul[Square(stats[k].var),
                                        BesselFactor(counts[k])])]]
    /\ calls' = [calls EXCEPT !.bessel = @ + 1]
    /\ pc' = "call"
    /\ UNCHANGED <<op, layout, dataset, i, counts, stack, retval, result, leaves>>

\* StatsCounter().compute_stats(stats, counts, mean, var): the outermost call.
CallComputeStats ==
    /\ op = "mean_std" /\ pc = "call"
    /\ stack' = <<Frame(1, Len(stats))>>
    /\ calls' = [calls EXCEPT !.compute_stats = @ + 1]
    /\ pc' = "reduce"
    /\ UNCHANGED <<op, layout, dataset, i, stats, counts, retval, result, leaves>>

\* if n == 1: return counts[0], m(0, stats), v(0, stats)
ComputeStatsOne ==
    /\ pc = "reduce" /\ stack # <<>>
    /\ Top.at = "enter" /\ FrameLen(Top) = 1
    /\ retval' = Triple(Elem(Top.lo), Top.lo, Top.hi, 0)
    /\ leaves' = Append(leaves, <<Top.lo, Top.hi>>)
    /\ stack' = Pop
    /\ UNCHANGED <<op, layout, dataset, pc, i, stats, counts, result, calls>>

\* if n == 2: return pairwise_stats(element 0, element 1)
ComputeStatsTwo ==
    /\ pc = "reduce" /\ stack # <<>>
    /\ Top.at = "enter" /\ FrameLen(Top) = 2
    /\ LET a == Elem(Top.lo)
           b == Elem(Top.lo + 1)
       IN  retval' = Triple(pairwise_stats(a.count, a.mean, a.var,
                                           b.count, b.mean, b.var),
                            Top.lo, Top.hi, 1)
    /\ leaves' = Append(leaves, <<Top.lo, Top.hi>>)
    /\ calls' = [calls EXCEPT !.pairwise_stats = @ + 1]
    /\ stack' = Pop
    /\ UNCHANGED <<op, layout, dataset, pc, i, stats, counts, result>>

\* h = n // 2, then the first argument: compute_stats(stats[:h], counts[:h])
ComputeStatsLeft ==
    /\ pc = "reduce" /\ stack # <<>>
    /\ Top.at = "enter" /\ FrameLen(Top) \notin {1, 2}
    /\ LET h == SplitPoint(FrameLen(Top))
       IN  stack' = Append([stack EXCEPT ![Len(stack)].at = "left"],
                           Frame(Top.lo, Top.lo + h - 1))
    /\ calls' = [calls EXCEPT !.compute_stats = @ + 1]
    /\ UNCHANGED <<op, layout, dataset, pc, i, stats, counts, retval, result,
                   leaves>>

\* the second argument: compute_stats(stats[h:], counts[h:])
ComputeStatsRight ==
    /\ pc = "reduce" /\ stack # <<>>
    /\ Top.at = "left"
    /\ LET h == SplitPoint(FrameLen(Top))
       IN  stack' = Append([stack EXCEPT ![Len(stack)].at = "right",
                                         ![Len(stack)].left = retval],
                           Frame(Top.lo + h, Top.hi))
    /\ calls' = [calls EXCEPT !.compute_stats = @ + 1]
    /\ UNCHANGED <<op, layout, dataset, pc, i, stats, counts, retval, result,
                   leaves>>

\* return pairwise_stats(*left result, *right result)
ComputeStatsMerge ==
    /\ pc = "reduce" /\ stack # <<>>
    /\ Top.at = "right"
    /\ LET a == Top.left
           b == retval
       IN  retval' = Triple(pairwise_stats(a.count, a.mean, a.var,
                                           b.count, b.mean, b.var),
                            Top.lo, Top.hi, 1 + Max(a.depth, b.depth))
    /\ calls' = [calls EXCEPT !.pairwise_stats = @ + 1]
    /\ stack' = Pop
    /\ UNCHANGED <<op, layout, dataset, pc, i, stats, counts, result, leaves>>

\* A step of a compute_stats call.
ComputeStatsStep ==
    \/ ComputeStatsOne
    \/ ComputeStatsTwo
    \/ ComputeStatsLeft
    \/ ComputeStatsRight
    \/ ComputeStatsMerge

\* return mean * 255, np.sqrt(var) * 255
MeanStdReturn ==
    /\ op = "mean_std" /\ pc = "reduce" /\ stack = <<>>
    /\ result' = [mean |-> Mul[retval.mean, Num(PixelMax)],
                  std  |-> Scale(Sqrt(retval.var), PixelMax)]
    /\ pc' = "done"
    /\ UNCHANGED <<op, layout, dataset, i, stats, counts, stack, retval,
                   calls, leaves>>

(***************************************************************************)
(* compute_ann_statistics                                                  *)
(***************************************************************************)
\* by_type[name] = by_type.get(name, 0) + 1
Bump(d, key) ==
    IF key \in DOMAIN d THEN [d EXCEPT ![key] = @ + 1] ELSE d @@ (key :> 1)

\* for ann in item.annotations: ...  The first attribute met evaluates
\* by_attr.get(name, {}), and by_attr is bound nowhere: NameError.
RECURSIVE WalkAnnotations(_, _)
WalkAnnotations(anns, by_type) ==
    IF anns = <<>> THEN [by_type |-> by_type, raised |-> FALSE]
    ELSE LET ann == Head(anns)
             counted == Bump(by_type, ann.type)
         IN  IF ann.attributes # <<>>
             THEN [by_type |-> counted, raised |-> TRUE]
             ELSE WalkAnnotations(Tail(anns), counted)

RECURSIVE SumValues(_)
SumValues(d) ==
    IF DOMAIN d = {} THEN 0
    ELSE LET key == CHOOSE x \in DOMAIN d : TRUE
         IN  d[key] + SumValues([x \in DOMAIN d \ {key} |-> d[x]])

\* stats = {...}; by_type = stats['Annotations by type']
AnnInit ==
    /\ op = "compute_ann_statistics" /\ pc = "start"
    /\ stats' = [total_images |-> Len(dataset),
                 total_annotations |-> 0,
                 by_type |-> [type \in {} |-> 0],
                 unannotated |-> <<>>]
    /\ i' = 1
    /\ pc' = IF Len(dataset) = 0 THEN "sum" ELSE "loop"
    /\ UNCHANGED <<op, layout, dataset, counts, stack, retval, result, calls,
                   leaves>>

\* One iteration of  for item in dataset.
AnnItem ==
    /\ op = "compute_ann_statistics" /\ pc = "loop"
    /\ i <= Len(dataset)
    /\ LET item == dataset[i]
           walk == WalkAnnotations(item.annotations, stats.by_type)
       IN  IF Len(item.annotations) = 0
           THEN /\ stats' = [stats EXCEPT !.unannotated = Append(@, item.id)]
                /\ pc' = IF i = Len(dataset) THEN "sum" ELSE "loop"
                /\ result' = result
           ELSE /\ stats' = [stats EXCEPT !.by_type = walk.by_type]
                /\ pc' = IF walk.raised THEN "error"
                         ELSE IF i = Len(dataset) THEN "sum" ELSE "loop"
                /\ result' = IF walk.raised THEN [raised |-> "NameError"]
                             ELSE result
    /\ i' = i + 1
    /\ UNCHANGED <<op, layout, dataset, counts, stack, retval, calls, leaves>>

\* stats['Total annotations'] = sum(...); return stats
AnnReturn ==
    /\ op = "compute_ann_statistics" /\ pc = "sum"
    /\ stats' = [stats EXCEPT !.total_annotations = SumValues(stats.by_type)]
    /\ result' = stats'
    /\ pc' = "done"
    /\ UNCHANGED <<op, layout, dataset, i, counts, stack, retval, calls, leaves>>

Next ==
    \/ MeanStdEmpty
    \/ MeanStdAlloc
    \/ ExtractItem
    \/ Bessel
    \/ CallComputeStats
    \/ ComputeStatsStep
    \/ MeanStdReturn
    \/ AnnInit
    \/ AnnItem
    \/ AnnReturn

Spec == Init /\ [][Next]_vars


(***************************************************************************)
(* Reference quantities the claims are stated against: the moments of the  *)
(* samples themselves, computed directly.                                  *)
(***************************************************************************)
N == Len(dataset)

\* The samples of item k, and of items lo..hi concatenated.
Samples(k) == Normalised(dataset[k].image)

RECURSIVE Pooled(_, _)
Pooled(lo, hi) == IF lo > hi THEN <<>> ELSE Samples(lo) \o Pooled(lo + 1, hi)

\* The unbiased sample variance; 0 for a single sample.
UnbiasedVar(samples) ==
    IF Len(samples) = 1 THEN Zero
    ELSE Div[SqDev(samples), Num(Len(samples) - 1)]

\* t is the (count, mean, unbiased variance) of the samples of items lo..hi.
Exact(t, lo, hi) ==
    LET samples == Pooled(lo, hi)
    IN  /\ t.count = Len(samples)
        /\ t.mean = Mean(samples)
        /\ t.var = UnbiasedVar(samples)

\* The per-image triples are final (the Bessel correction has been applied).
Corrected == op = "mean_std" /\ pc \in {"call", "reduce", "done"} /\ N > 0

\* The outermost compute_stats call has returned.
Reduced ==
    op = "mean_std" /\ pc \in {"reduce", "done"} /\ stack = <<>> /\ retval # None

Returned == op = "mean_std" /\ pc = "done" /\ N > 0

Uniform(img) == img.fill \in {"lo", "hi"}

RECURSIVE CeilLog2(_)
CeilLog2(n) == IF n <= 1 THEN 0 ELSE 1 + CeilLog2((n + 1) \div 2)

\* floor(n / 2), from its defining inequalities.
Half(n) == CHOOSE h \in 0..n : 2 * h <= n /\ n < 2 * h + 2

(***************************************************************************)
(* The claims.                                                             *)
(***************************************************************************)

\* C1: when every per-image triple is the exact (count, mean, unbiased
\* variance) of its image, the triple compute_stats returns is the exact
\* (count, mean, unbiased variance) of all images' samples pooled.
C1_PooledMoments ==
    (Reduced /\ \A k \in 1..N : Exact(Elem(k), k, k)) => Exact(retval, 1, N)

\* C2: for two images of equal pixel count n, one uniformly a and one
\* uniformly b, compute_stats returns (2n, the midpoint of the means, the
\* documented merge of the variances), and mean_std returns the mean
\* (a + b) / 2 and the variance (a - b)^2 * n / (2 * (2n - 1)), which is
\* positive when a # b.
C2_TwoUniformImages ==
    ( /\ Returned /\ N = 2
      /\ Uniform(dataset[1].image) /\ Uniform(dataset[2].image)
      /\ counts[1] = counts[2] )
    => LET n == counts[1]
           a == Pixel(dataset[1].image, 1)
           b == Pixel(dataset[2].image, 1)
           variance == Frac[(a - b) * (a - b) * n, 2 * (2 * n - 1)]
       IN  /\ retval.count = 2 * n
           /\ retval.mean = Div[Add[stats[1].mean, stats[2].mean], Num(2)]
           /\ result.mean = Frac[a + b, 2]
           /\ Square(result.std) = variance
           /\ (a # b => Less[Zero, Square(result.std)])

\* C3: every moment triple that exists during a mean_std call (per image
\* after the Bessel correction, returned by a compute_stats call, held by a
\* frame as its left result) has the unbiased variance of exactly the
\* samples it stands for, and their number as its count.  Stated for the
\* datasets on which every per-image triple starts out well defined: size
\* descriptors (height, width) and no single-pixel image.
C3_UnbiasedEverywhere ==
    ( /\ op = "mean_std" /\ layout = "HW"
      /\ \A k \in 1..N : Len(Samples(k)) > 1 )
    => /\ Corrected =>
              \A k \in 1..N :
                  /\ counts[k] = Len(Samples(k))
                  /\ Elem(k).var = UnbiasedVar(Samples(k))
       /\ retval # None =>
              /\ retval.count = Len(Pooled(retval.lo, retval.hi))
              /\ retval.var = UnbiasedVar(Pooled(retval.lo, retval.hi))
       /\ \A j \in 1..Len(stack) :
              stack[j].at = "right" =>
                  stack[j].left.var =
                      UnbiasedVar(Pooled(stack[j].left.lo, stack[j].left.hi))

\* C4: when every pixel of every image of a non-empty dataset has the same
\* value v, mean_std returns mean v and std 0.
C4_UniformDataset ==
    ( /\ Returned
      /\ \A k \in 1..N : /\ Uniform(dataset[k].image)
                         /\ dataset[k].image.fill = dataset[1].image.fill )
    => /\ result.mean = Num(Pixel(dataset[1].image, 1))
       /\ Square(result.std) = Zero

\* C5: on a dataset with no items mean_std returns mean 0 and std 0 in its
\* first step, with no per-image extraction, no Bessel correction and no
\* compute_stats call.
C5_EmptyDataset ==
    (op = "mean_std" /\ N = 0)
    => /\ pc \in {"start", "done"}
       /\ calls = NoCalls
       /\ stack = <<>>
       /\ pc = "start" => ENABLED MeanStdEmpty
       /\ pc = "done" => result = [mean |-> Zero, std |-> Plain(Zero)]

\* C5 (witness): mean_std has returned on an empty dataset.
C5_Witness == op = "mean_std" /\ N = 0 /\ pc = "done"

\* C6: a per-image triple with sample_count 1 has variance 0, the n / (n - 1)
\* correction divides by no zero, and the output of mean_std on a dataset
\* holding such an image is defined.
C6_SinglePixel ==
    /\ Corrected =>
           \A k \in 1..N :
               counts[k] = 1 =>
                   /\ IsFinite(BesselFactor(counts[k]))
                   /\ Elem(k).var = Zero
    /\ Returned => ~IsNaN(result.mean) /\ ~IsNaN(result.std.rad)

\* C7: the sample count stored for an item is height x width of its image,
\* whatever its size descriptor and its number of channels.
C7_SampleCount ==
    (op = "mean_std" /\ pc \in {"loop", "bessel", "call", "reduce", "done"})
    => \A k \in 1..Len(counts) :
           counts[k] = dataset[k].image.h * dataset[k].image.w

\* Reference tallies for C8.
RECURSIVE CountType(_, _)
CountType(anns, type) ==
    IF anns = <<>> THEN 0
    ELSE (IF Head(anns).type = type THEN 1 ELSE 0) + CountType(Tail(anns), type)

RECURSIVE TotalOfType(_, _)
TotalOfType(k, type) ==
    IF k = 0 THEN 0
    ELSE CountType(dataset[k].annotations, type) + TotalOfType(k - 1, type)

RECURSIVE TotalAnnotations(_)
TotalAnnotations(k) ==
    IF k = 0 THEN 0
    ELSE Len(dataset[k].annotations) + TotalAnnotations(k - 1)

RECURSIVE UnannotatedIds(_)
UnannotatedIds(k) ==
    IF k = 0 THEN <<>>
    ELSE IF Len(dataset[k].annotations) = 0
         THEN Append(UnannotatedIds(k - 1), dataset[k].id)
         ELSE UnannotatedIds(k - 1)

TypesOf(k) == { dataset[k].annotations[j].type : j \in DOMAIN dataset[k].annotations }

\* C8: compute_ann_statistics completes without error on every dataset,
\* annotations with attributes included, and returns the unannotated
\* identifiers in order, the per-type counts and their total.
C8_AnnStatistics ==
    op = "compute_ann_statistics"
    => /\ pc # "error"
       /\ pc = "done" =>
              /\ result.unannotated = UnannotatedIds(N)
              /\ DOMAIN result.by_type = UNION { TypesOf(k) : k \in 1..N }
              /\ \A type \in DOMAIN result.by_type :
                     result.by_type[type] = TotalOfType(N, type)
              /\ result.total_annotations = TotalAnnotations(N)

LeavesInOrder ==
    /\ \A j \in 1..Len(leaves) : leaves[j][1] <= leaves[j][2]
    /\ Len(leaves) > 0 => leaves[1][1] = 1
    /\ \A j \in 2..Len(leaves) : leaves[j][1] = leaves[j - 1][2] + 1

\* What the recursion has done so far: calls made, base cases taken, merges.
Measure == calls.compute_stats + Len(leaves) + calls.pairwise_stats

\* C10 (state part): every compute_stats call gets a non-empty contiguous
\* sub-sequence, strictly shorter than and inside its caller's; the base
\* cases take the elements in their order, each exactly once; no call is
\* made on an empty dataset; a call in progress can always take a step; and
\* calls, base cases and merges together number at most 4N - 2.
C10_Recursion ==
    op = "mean_std"
    => /\ \A j \in 1..Len(stack) :
              /\ 1 <= stack[j].lo /\ stack[j].lo <= stack[j].hi
              /\ stack[j].hi <= N
       /\ \A j \in 2..Len(stack) :
              /\ FrameLen(stack[j]) < FrameLen(stack[j - 1])
              /\ stack[j - 1].lo <= stack[j].lo
              /\ stack[j].hi <= stack[j - 1].hi
       /\ N = 0 => calls.compute_stats = 0
       /\ LeavesInOrder
       /\ Reduced => leaves[Len(leaves)][2] = N
       /\ (pc = "reduce" /\ stack # <<>>) => ENABLED ComputeStatsStep
       /\ (pc = "reduce" /\ stack = <<>>) => ENABLED MeanStdReturn
       /\ Measure <= Max(4 * N - 2, 0)

\* C10: the recursion terminates: the state part holds throughout and every
\* step of a compute_stats call raises the bounded Measure, so that a call
\* takes finitely many steps and is never stuck before it returns.
C10_Terminates ==
    /\ []C10_Recursion
    /\ [][ComputeStatsStep => Measure' > Measure]_vars

\* C10 (witness): the recursion on five triples has ended, after five
\* calls and three base cases.
C10_Witness == Reduced /\ N = 5 /\ Len(leaves) = 3 /\ calls.compute_stats = 5

=============================================================================
